---- MODULE Spec2Model ----
(***************************************************************************)
(* Model of scripts/convert_poems_to_sqlite.py: main() and                 *)
(* create_poems_database(json_file_path, db_output_path).                  *)
(*                                                                         *)
(* JSON objects are functions from the keys they hold to values, so that   *)
(* "key absent" and "key present" are different inputs.  The file at the   *)
(* output path is the record fs; rows inserted but not yet committed live  *)
(* in txn (the connection's pending transaction) and reach fs only at      *)
(* conn.commit().  The model assumes the SQLite engine itself does not     *)
(* fail once the connection is open; os.remove and sqlite3.connect may.    *)
(***************************************************************************)
EXTENDS Integers, Sequences, FiniteSets, TLC

(* ------------------------------ bounds -------------------------------- *)

\* most poems in one input document, summed over its collections
MaxPoems == 3

\* most collections in one input document
MaxCollections == 2

\* most consecutive runs of the script on the same input and output path
MaxRuns == 2

(* --------------------------- input universe --------------------------- *)

\* Python None / JSON null / SQL NULL
None == "<None>"

\* a JSON object without keys
EmptyObject == [k \in {} |-> None]

\* poem objects the input may hold: complete, partial with a foreign key,
\* same id as the first, without any key, and with a null field
Poems ==
    { ("id" :> "p1") @@ ("title" :> "T") @@ ("author" :> "A")
            @@ ("text" :> "Hello") @@ ("first_line" :> "Hi"),
      ("id" :> "p2") @@ ("author" :> "B") @@ ("text" :> "Hey")
            @@ ("sourceType" :> "USER"),
      ("id" :> "p1") @@ ("title" :> "T2"),
      EmptyObject,
      ("id" :> "p3") @@ ("title" :> None) @@ ("author" :> "A")
            @@ ("text" :> "Yo") @@ ("first_line" :> "Yo") }

\* flat poem sequences of a document
PoemLists == UNION { [1..n -> Poems] : n \in 0..MaxPoems }

\* a collection either has no 'poems' key or holds n poems
CollectionShapes ==
    { [has |-> FALSE, n |-> 0] } \cup { [has |-> TRUE, n |-> k] : k \in 0..MaxPoems }

RECURSIVE ShapeTotal(_)
ShapeTotal(sh) ==
    IF sh = <<>> THEN 0 ELSE sh[1].n + ShapeTotal(Tail(sh))

Shapes == UNION { [1..n -> CollectionShapes] : n \in 0..MaxCollections }

\* number of poems before collection c in shape sh
RECURSIVE Offset(_, _)
Offset(sh, c) ==
    IF c = 1 THEN 0 ELSE sh[c - 1].n + Offset(sh, c - 1)

\* the collection objects of a document with poems ps cut as sh says
BuildCollections(ps, sh) ==
    [c \in 1..Len(sh) |->
        IF sh[c].has
        THEN ("poems" :> [i \in 1..sh[c].n |-> ps[Offset(sh, c) + i]])
        ELSE EmptyObject]

\* the parsed documents: no 'collections' key, or a list of collections
Documents ==
    { EmptyObject } \cup
    { ("collections" :> BuildCollections(ps, sh)) :
        <<ps, sh>> \in { q \in PoemLists \X Shapes : ShapeTotal(q[2]) = Len(q[1]) } }

\* the file at the input path
InputFiles ==
    { [kind |-> "missing", data |-> EmptyObject],
      [kind |-> "malformed", data |-> EmptyObject] }
    \cup { [kind |-> "json", data |-> d] : d \in Documents }

\* no file at the output path
NoFile == [exists |-> FALSE, schema |-> FALSE, rows |-> <<>>]

\* a database left at the output path by something earlier
OldStore ==
    [exists |-> TRUE, schema |-> TRUE,
     rows |-> << [id |-> "p1", title |-> "Old", author |-> "Z",
                  content |-> "Old text", firstLine |-> "Old", sourceType |-> "USER"] >>]

OutputFiles == { NoFile, OldStore }

(* ------------------------------- state -------------------------------- *)

VARIABLES
    input,                  \* file at json_file_path
    fs,                     \* file at db_output_path
    prior,                  \* fs when the current run began, and how the previous run ended
    runs,                   \* number of the current run
    pc,                     \* position in main / create_poems_database
    data,                   \* parsed document
    conn,                   \* "unbound", "open" or "closed"
    txn,                    \* rows inserted in the pending transaction
    ci,                     \* index of the current collection
    pi,                     \* index of the next poem in it
    total_poems,
    collections_processed,
    final_count,
    avg_content_length,
    unique_authors,
    printed,                \* statistics lines written to standard output
    msg,                    \* class of the diagnostic printed
    result,                 \* return value of create_poems_database
    exitCode                \* return value of main

vars == << input, fs, prior, runs, pc, data, conn, txn, ci, pi, total_poems,
           collections_processed, final_count, avg_content_length,
           unique_authors, printed, msg, result, exitCode >>

locals == << data, txn, ci, pi, total_poems, collections_processed >>
stats == << final_count, avg_content_length, unique_authors >>

(* ------------------------------ helpers ------------------------------- *)

\* dict.get(key, default)
Get(obj, key, default) ==
    IF key \in DOMAIN obj THEN obj[key] ELSE default

\* data['collections'] when the key is there, nothing to iterate otherwise
Colls(d) ==
    IF "collections" \in DOMAIN d THEN d["collections"] ELSE <<>>

\* collection.get('poems', [])
CollPoems(collection) == Get(collection, "poems", <<>>)


\* variant: a missing author becomes 'Unknown', as a missing collection name does
PoemDataUnknownAuthor(poem) ==
    [id         |-> Get(poem, "id", ""),
     title      |-> Get(poem, "title", ""),
     author     |-> Get(poem, "author", "Unknown"),
     content    |-> Get(poem, "text", ""),
     firstLine  |-> Get(poem, "first_line", ""),
     sourceType |-> "BUNDLED"]

\* variant: sourceType is taken from the poem when the poem has one
PoemDataSourceFromPoem(poem) ==
    [id         |-> Get(poem, "id", ""),
     title      |-> Get(poem, "title", ""),
     author     |-> Get(poem, "author", ""),
     content    |-> Get(poem, "text", ""),
     firstLine  |-> Get(poem, "first_line", ""),
     sourceType |-> Get(poem, "sourceType", "BUNDLED")]

\* the tuple bound to the INSERT statement
PoemData(poem) ==
    [id         |-> Get(poem, "id", ""),
     title      |-> Get(poem, "title", ""),
     author     |-> Get(poem, "author", ""),
     content    |-> Get(poem, "text", ""),
     firstLine  |-> Get(poem, "first_line", ""),
     sourceType |-> "BUNDLED"]

Columns == { "id", "title", "author", "content", "firstLine", "sourceType" }

\* every column of the table is declared NOT NULL
NotNullOk(row) == \A c \in Columns : row[c] # None


\* variant: id declared without PRIMARY KEY
PrimaryKeyOff(table, row) == TRUE

\* id is the PRIMARY KEY
PrimaryKeyOk(table, row) == \A i \in 1..Len(table) : table[i].id # row.id

\* the INSERT is accepted by the table's constraints
InsertOk(table, row) == NotNullOk(row) /\ PrimaryKeyOk(table, row)

RECURSIVE SumLength(_)
SumLength(rows) ==
    IF rows = <<>> THEN 0 ELSE Len(rows[1].content) + SumLength(Tail(rows))

\* SELECT AVG(LENGTH(content)): NULL over an empty table
AvgLength(rows) ==
    IF Len(rows) = 0
    THEN [none |-> TRUE, sum |-> 0, n |-> 0]
    ELSE [none |-> FALSE, sum |-> SumLength(rows), n |-> Len(rows)]


\* variant: SELECT COUNT(DISTINCT author) ... WHERE author != ''
CountDistinctNamedAuthor(rows) ==
    Cardinality({ rows[i].author : i \in 1..Len(rows) } \ { None, "" })

\* SELECT COUNT(DISTINCT author)
CountDistinctAuthor(rows) ==
    Cardinality({ rows[i].author : i \in 1..Len(rows) } \ { None })

NoStats == [none |-> TRUE, sum |-> 0, n |-> 0]
NothingPrinted == [shown |-> FALSE, total |-> 0, collections |-> 0, authors |-> 0]

(* ------------------------------ actions ------------------------------- *)

Init ==
    /\ input \in InputFiles
    /\ fs \in OutputFiles
    /\ prior = [fs |-> fs, ok |-> FALSE]
    /\ runs = 1
    /\ pc = "main"
    /\ data = EmptyObject
    /\ conn = "unbound"
    /\ txn = <<>>
    /\ ci = 1
    /\ pi = 1
    /\ total_poems = 0
    /\ collections_processed = 0
    /\ final_count = 0
    /\ avg_content_length = NoStats
    /\ unique_authors = 0
    /\ printed = NothingPrinted
    /\ msg = "none"
    /\ result = "unset"
    /\ exitCode = -1

\* main, up to the call of create_poems_database
MainStart ==
    /\ pc = "main"
    /\ IF input.kind = "missing"
       THEN /\ msg' = "not_found"
            /\ exitCode' = 1
            /\ pc' = "done"
       ELSE /\ pc' = "read"
            /\ UNCHANGED << msg, exitCode >>
    /\ UNCHANGED << input, fs, prior, runs, conn, locals, stats, printed, result >>


\* variant: the old output file is removed before the input is read
ReadInputAfterRemove ==
    /\ pc = "read"
    /\ fs' = NoFile
    /\ IF input.kind = "json"
       THEN /\ data' = input.data
            /\ pc' = "open"
            /\ UNCHANGED << msg, result >>
       ELSE /\ msg' = "read_error"
            /\ result' = "False"
            /\ pc' = "exit"
            /\ UNCHANGED data
    /\ UNCHANGED << input, prior, runs, conn, txn, ci, pi, total_poems,
                    collections_processed, stats, printed, exitCode >>

\* open and json.load the input
ReadInput ==
    /\ pc = "read"
    /\ IF input.kind = "json"
       THEN /\ data' = input.data
            /\ pc' = "open"
            /\ UNCHANGED << msg, result >>
       ELSE /\ msg' = "read_error"
            /\ result' = "False"
            /\ pc' = "exit"
            /\ UNCHANGED data
    /\ UNCHANGED << input, fs, prior, runs, conn, txn, ci, pi, total_poems,
                    collections_processed, stats, printed, exitCode >>


\* variant: the old file is kept and the table created only when missing
OpenOutputKeepOld ==
    /\ pc = "open"
    /\ \/ /\ fs' = [exists |-> TRUE, schema |-> TRUE, rows |-> fs.rows]
          /\ conn' = "open"
          /\ txn' = <<>>
          /\ total_poems' = 0
          /\ collections_processed' = 0
          /\ ci' = 1
          /\ pi' = 1
          /\ pc' = "insert"
       \/ /\ pc' = "except"
          /\ UNCHANGED << fs, conn, txn, total_poems, collections_processed, ci, pi >>
    /\ UNCHANGED << input, prior, runs, data, stats, printed, msg, result, exitCode >>

\* remove the old file, connect, create the table and its indexes
OpenOutput ==
    /\ pc = "open"
    /\ \/ /\ fs' = [exists |-> TRUE, schema |-> TRUE, rows |-> <<>>]
          /\ conn' = "open"
          /\ txn' = <<>>
          /\ total_poems' = 0
          /\ collections_processed' = 0
          /\ ci' = 1
          /\ pi' = 1
          /\ pc' = "insert"
       \/ \* os.remove raises
          /\ fs.exists
          /\ pc' = "except"
          /\ UNCHANGED << fs, conn, txn, total_poems, collections_processed, ci, pi >>
       \/ \* sqlite3.connect raises
          /\ fs' = NoFile
          /\ pc' = "except"
          /\ UNCHANGED << conn, txn, total_poems, collections_processed, ci, pi >>
    /\ UNCHANGED << input, prior, runs, data, stats, printed, msg, result, exitCode >>


\* variant: the connection is in autocommit mode, each INSERT reaches the file
InsertPoemAutocommit ==
    /\ pc = "insert"
    /\ ci <= Len(Colls(data))
    /\ pi <= Len(CollPoems(Colls(data)[ci]))
    /\ LET poem_data == PoemData(CollPoems(Colls(data)[ci])[pi])
       IN  IF InsertOk(fs.rows \o txn, poem_data)
           THEN /\ fs' = [fs EXCEPT !.rows = Append(fs.rows, poem_data)]
                /\ total_poems' = total_poems + 1
                /\ pi' = pi + 1
                /\ pc' = "insert"
           ELSE /\ pc' = "except"
                /\ UNCHANGED << fs, total_poems, pi >>
    /\ UNCHANGED << input, prior, runs, data, conn, txn, ci, collections_processed,
                    stats, printed, msg, result, exitCode >>

\* one pass of the inner loop
InsertPoem ==
    /\ pc = "insert"
    /\ ci <= Len(Colls(data))
    /\ pi <= Len(CollPoems(Colls(data)[ci]))
    /\ LET poem_data == PoemData(CollPoems(Colls(data)[ci])[pi])
       IN  IF InsertOk(fs.rows \o txn, poem_data)
           THEN /\ txn' = Append(txn, poem_data)
                /\ total_poems' = total_poems + 1
                /\ pi' = pi + 1
                /\ pc' = "insert"
           ELSE /\ pc' = "except"
                /\ UNCHANGED << txn, total_poems, pi >>
    /\ UNCHANGED << input, fs, prior, runs, data, conn, ci, collections_processed,
                    stats, printed, msg, result, exitCode >>

\* the inner loop is over: count the collection and go to the next
EndCollection ==
    /\ pc = "insert"
    /\ ci <= Len(Colls(data))
    /\ pi > Len(CollPoems(Colls(data)[ci]))
    /\ collections_processed' = collections_processed + 1
    /\ ci' = ci + 1
    /\ pi' = 1
    /\ UNCHANGED << input, fs, prior, runs, pc, data, conn, txn, total_poems,
                    stats, printed, msg, result, exitCode >>

\* conn.commit()
Commit ==
    /\ pc = "insert"
    /\ ci > Len(Colls(data))
    /\ fs' = [fs EXCEPT !.rows = fs.rows \o txn]
    /\ txn' = <<>>
    /\ pc' = "stats"
    /\ UNCHANGED << input, prior, runs, data, conn, ci, pi, total_poems,
                    collections_processed, stats, printed, msg, result, exitCode >>

\* the three aggregate queries, then conn.close()
QueryStats ==
    /\ pc = "stats"
    /\ final_count' = Len(fs.rows \o txn)
    /\ avg_content_length' = AvgLength(fs.rows \o txn)
    /\ unique_authors' = CountDistinctAuthor(fs.rows \o txn)
    /\ conn' = "closed"
    /\ txn' = <<>>
    /\ pc' = "report"
    /\ UNCHANGED << input, fs, prior, runs, data, ci, pi, total_poems,
                    collections_processed, printed, msg, result, exitCode >>

\* print the statistics and return True
Report ==
    /\ pc = "report"
    /\ printed' = [shown |-> TRUE, total |-> final_count,
                   collections |-> collections_processed, authors |-> unique_authors]
    /\ IF avg_content_length.none
       THEN /\ pc' = "except"
            /\ UNCHANGED result
       ELSE /\ result' = "True"
            /\ pc' = "exit"
    /\ UNCHANGED << input, fs, prior, runs, conn, locals, stats, msg, exitCode >>


\* variant: the handler returns False without closing the connection
ErrorHandlerNoClose ==
    /\ pc = "except"
    /\ msg' = "write_error"
    /\ result' = "False"
    /\ pc' = "exit"
    /\ UNCHANGED << input, fs, prior, runs, conn, locals, stats, printed, exitCode >>

\* except Exception: close the connection when there is one, return False
ErrorHandler ==
    /\ pc = "except"
    /\ msg' = "write_error"
    /\ IF conn # "unbound"
       THEN /\ conn' = "closed"
            /\ txn' = <<>>
       ELSE UNCHANGED << conn, txn >>
    /\ result' = "False"
    /\ pc' = "exit"
    /\ UNCHANGED << input, fs, prior, runs, data, ci, pi, total_poems,
                    collections_processed, stats, printed, exitCode >>

\* main, after create_poems_database returned
MainExit ==
    /\ pc = "exit"
    /\ exitCode' = IF result = "True" THEN 0 ELSE 1
    /\ pc' = "done"
    /\ UNCHANGED << input, fs, prior, runs, conn, locals, stats, printed, msg, result >>

\* the script is started again on the same paths; a connection a process
\* left open ends with the process, its pending transaction rolled back
Rerun ==
    /\ pc = "done"
    /\ runs < MaxRuns
    /\ runs' = runs + 1
    /\ prior' = [fs |-> fs, ok |-> (exitCode = 0)]
    /\ pc' = "main"
    /\ data' = EmptyObject
    /\ conn' = "unbound"
    /\ txn' = <<>>
    /\ ci' = 1
    /\ pi' = 1
    /\ total_poems' = 0
    /\ collections_processed' = 0
    /\ final_count' = 0
    /\ avg_content_length' = NoStats
    /\ unique_authors' = 0
    /\ printed' = NothingPrinted
    /\ msg' = "none"
    /\ result' = "unset"
    /\ exitCode' = -1
    /\ UNCHANGED << input, fs >>

Next ==
    \/ MainStart
    \/ ReadInput
    \/ OpenOutput
    \/ InsertPoem
    \/ EndCollection
    \/ Commit
    \/ QueryStats
    \/ Report
    \/ ErrorHandler
    \/ MainExit
    \/ Rerun

Spec == Init /\ [][Next]_vars

TypeOK ==
    /\ pc \in { "main", "read", "open", "insert", "stats", "report", "except", "exit", "done" }
    /\ conn \in { "unbound", "open", "closed" }
    /\ result \in { "unset", "True", "False" }
    /\ exitCode \in { -1, 0, 1 }
    /\ runs \in 1..MaxRuns

(* ------------------------ reading the document ------------------------ *)

\* the poems of a list of collections, in document order
RECURSIVE Flatten(_)
Flatten(cs) ==
    IF Len(cs) = 0 THEN <<>> ELSE CollPoems(cs[1]) \o Flatten(Tail(cs))

AllPoems(d) == Flatten(Colls(d))

NumPoems(d) == Len(AllPoems(d))

\* the five poem keys the script reads, and the column each one feeds
FieldKeys == { "id", "title", "author", "text", "first_line" }

ColumnOf(k) ==
    CASE k = "text" -> "content"
      [] k = "first_line" -> "firstLine"
      [] OTHER -> k

\* every field a poem holds is text
TextOnly(d) ==
    LET ps == AllPoems(d)
    IN  \A i \in 1..Len(ps) : \A k \in DOMAIN ps[i] : ps[i][k] # None

\* two poems of the document carry the same id (an absent id counts as "")
HasDuplicateId(d) ==
    LET ps == AllPoems(d)
    IN  \E i, j \in 1..Len(ps) : i < j /\ Get(ps[i], "id", "") = Get(ps[j], "id", "")

\* position in document order of the first poem whose id an earlier poem has
FirstDuplicate(d) ==
    LET ps == AllPoems(d)
    IN  CHOOSE j \in 1..Len(ps) :
            /\ \E i \in 1..(j - 1) : Get(ps[i], "id", "") = Get(ps[j], "id", "")
            /\ \A k \in 1..(j - 1) :
                  \A i \in 1..(k - 1) : Get(ps[i], "id", "") # Get(ps[k], "id", "")

\* create_poems_database has returned to main, or main has ended
Returned == pc \in { "exit", "done" }

\* the rows of the table as the connection sees them
Table == fs.rows \o txn

(* ------------------------------- claims ------------------------------- *)

\* C1: for every valid input document (text fields, unique ids, any field
\* possibly absent, any number of collections and poems) whose output could
\* be opened, the run succeeds and the table has one row per poem.
C1_ValidDocumentSucceeds ==
    ( /\ pc = "done"
      /\ input.kind = "json"
      /\ TextOnly(input.data)
      /\ ~HasDuplicateId(input.data)
      /\ conn # "unbound" )
    => /\ result = "True"
       /\ exitCode = 0
       /\ Len(fs.rows) = NumPoems(input.data)

\* C2: an input that yields zero poems (no 'collections' key included) ends
\* with a table of zero rows, create_poems_database returning True and exit
\* code 0.
C2_NoPoemsSucceeds ==
    ( /\ pc = "done"
      /\ input.kind = "json"
      /\ NumPoems(input.data) = 0
      /\ conn # "unbound" )
    => /\ Len(fs.rows) = 0
       /\ result = "True"
       /\ exitCode = 0

\* C3: when two poems of the input share an id, the run never returns True:
\* it ends with the output-write failure and exit code 1; in a document of
\* text fields the INSERT that fails is that of the first poem repeating an
\* id, every poem before it having been inserted; and the table never holds
\* two rows with one id.
C3_DuplicateIdFails ==
    /\ ( input.kind = "json" /\ HasDuplicateId(input.data) )
       => /\ result # "True"
          /\ Returned => ( result = "False" /\ msg = "write_error" )
          /\ pc = "done" => exitCode = 1
          /\ ( Returned /\ conn = "closed" /\ TextOnly(input.data) )
                => total_poems = FirstDuplicate(input.data) - 1
    /\ \A i, j \in 1..Len(Table) : i # j => Table[i].id # Table[j].id

C3_Witness ==
    /\ pc = "done"
    /\ HasDuplicateId(input.data)
    /\ TextOnly(input.data)
    /\ total_poems >= 1
    /\ conn = "closed"
    /\ exitCode = 1

\* C4: no row of the table, pending or committed, holds a null, and the
\* column fed by a key the poem lacks is the empty string.
C4_MissingFieldsEmpty ==
    /\ \A i \in 1..Len(Table) : \A c \in Columns : Table[i][c] # None
    /\ conn # "unbound"
       => LET ps == AllPoems(data)
          IN  \A i \in 1..Len(Table) : \A k \in FieldKeys :
                 k \notin DOMAIN ps[i] => Table[i][ColumnOf(k)] = ""

C4_Witness ==
    /\ pc = "done"
    /\ exitCode = 0
    /\ \E i \in 1..Len(fs.rows) : DOMAIN AllPoems(data)[i] = {}
    /\ \E i \in 1..Len(fs.rows) : "title" \notin DOMAIN AllPoems(data)[i]
                                  /\ "author" \in DOMAIN AllPoems(data)[i]

\* C5: when the input is missing or cannot be parsed, the file at the output
\* path stays as it was when the run began, and the run ends with the
\* input-read failure and exit code 1.
C5_InputFailureLeavesOutput ==
    input.kind # "json"
    => /\ fs = prior.fs
       /\ conn = "unbound"
       /\ result # "True"
       /\ pc = "done" => ( exitCode = 1 /\ msg \in { "not_found", "read_error" } )

C5_Witness ==
    /\ pc = "done"
    /\ input.kind = "malformed"
    /\ fs = OldStore
    /\ result = "False"
    /\ exitCode = 1

\* C6: after a successful run the table holds this run's rows only: each row
\* comes from a poem of the input, there are as many rows as poems, and a
\* second successful run on the same input leaves the rows of the first.
C6_RerunReplaces ==
    ( pc = "done" /\ exitCode = 0 )
    => /\ Len(fs.rows) = NumPoems(input.data)
       /\ LET ps == AllPoems(input.data)
          IN  \A i \in 1..Len(fs.rows) :
                 \E j \in 1..Len(ps) : fs.rows[i].id = Get(ps[j], "id", "")
       /\ \A i \in 1..Len(fs.rows) : fs.rows[i] \notin { OldStore.rows[j] : j \in 1..Len(OldStore.rows) }
       /\ ( runs >= 2 /\ prior.ok ) => fs.rows = prior.fs.rows

C6_Witness ==
    /\ pc = "done"
    /\ exitCode = 0
    /\ runs = 2
    /\ prior.ok
    /\ Len(prior.fs.rows) >= 2
    /\ fs.rows = prior.fs.rows

\* C7: after a successful run, row i of the table is the image of poem i of
\* the document: id, title and author under their own names, content from
\* text, firstLine from first_line, absent keys as "", and sourceType
\* "BUNDLED" whatever the poem holds.
C7_RowsAreImages ==
    ( pc = "done" /\ exitCode = 0 )
    => /\ Len(fs.rows) = NumPoems(input.data)
       /\ \A i \in 1..Len(fs.rows) :
             LET p == AllPoems(input.data)[i]
                 r == fs.rows[i]
                 field(k) == IF k \in DOMAIN p THEN p[k] ELSE ""
             IN  /\ r.id = field("id")
                 /\ r.title = field("title")
                 /\ r.author = field("author")
                 /\ r.content = field("text")
                 /\ r.firstLine = field("first_line")
                 /\ r.sourceType = "BUNDLED"

C7_Witness ==
    /\ pc = "done"
    /\ exitCode = 0
    /\ Len(fs.rows) >= 2
    /\ \E i \in 1..Len(fs.rows) :
          /\ "sourceType" \in DOMAIN AllPoems(input.data)[i]
          /\ AllPoems(input.data)[i]["sourceType"] # "BUNDLED"
    /\ \E i \in 1..Len(fs.rows) : fs.rows[i].content # fs.rows[i].firstLine

\* C8: the statistics printed are those of the committed table: the total is
\* the number of rows in the file, and the author count is the number of
\* different author values among them, "" being one of them.
C8_StatsFromFinalTable ==
    printed.shown
    => /\ txn = <<>>
       /\ printed.total = Len(fs.rows)
       /\ printed.authors = Cardinality({ fs.rows[i].author : i \in 1..Len(fs.rows) })

C8_Witness ==
    /\ pc = "done"
    /\ printed.shown
    /\ printed.total = 3
    /\ printed.authors = 2
    /\ \E i \in 1..Len(fs.rows) : fs.rows[i].author = ""

\* C9: create_poems_database never returns with the connection open.
C9_HandleClosedOnReturn ==
    Returned => ( conn # "open" /\ txn = <<>> )

C9_Witness ==
    /\ pc = "exit"
    /\ result = "False"
    /\ conn = "closed"
    /\ total_poems >= 1
    /\ ~printed.shown

\* C10: when an INSERT fails, the file at the output path is left with the
\* schema and no row: neither the rows inserted before the failure nor the
\* rows of the file that was there before the run.
C10_FailedInsertPersistsNothing ==
    ( Returned /\ result = "False" /\ conn = "closed" /\ ~printed.shown )
    => fs = [exists |-> TRUE, schema |-> TRUE, rows |-> <<>>]

C10_Witness ==
    /\ pc = "done"
    /\ result = "False"
    /\ conn = "closed"
    /\ ~printed.shown
    /\ total_poems >= 1
    /\ prior.fs = OldStore
    /\ fs.rows = <<>>

====
